---- MODULE Spec2Model ----
(***************************************************************************)
(* Drag reconciliation of the kanban board: handleDrop of DragDropApp and  *)
(* the path-addressed tree operations it drives.  A board is an ordered    *)
(* list of lanes, a lane an ordered list of items; every managed document  *)
(* owns one board slot, one error slot and one 'list-collapse' view array. *)
(* One action is one completed drop gesture, run to completion.            *)
(***************************************************************************)
EXTENDS Integers, Sequences, FiniteSets, TLC

(* ---------------------------- bounds ---------------------------------- *)
MaxGestures == 1        \* drop gestures per behaviour
MaxContent == 2         \* titles carried by one external (htmldnd) payload
StaleIndex == 5         \* child index used by paths captured before a change
MaxTitle == 4           \* tokens of a title handed to handleEisenhowerDrop
MaxParts == 5           \* parts of a title handed to the eisenhower helpers
MaxViewItems == 2       \* items of the board an EisenhowerView is mounted on
MaxEdits == 1           \* changes of the board while the view is shown
MaxMounts == 2          \* EisenhowerView instances mounted one after the other

(* --------------------------- vocabulary ------------------------------- *)
Docs == {"A", "B"}
BoardType == "board"
LaneType == "lane"
ItemType == "item"

Done == "x"             \* getTaskStatusDone()
NotDone == " "

NotFound == [type |-> "notfound"]     \* resolve() found nothing
None == [type |-> "undefined"]        \* JavaScript undefined
Thrown == [type |-> "thrown"]         \* an exception left the computation

\* entity ids: items I0..I3, lanes L0, L1, M0; FreshIds are handed out in
\* order to the items created by getNewItem
I0 == "I0"
I1 == "I1"
I2 == "I2"
I3 == "I3"
L0 == "L0"
L1 == "L1"
M0 == "M0"
FreshIds == <<"N1", "N2", "N3", "N4", "N5", "N6", "N7", "N8", "N9", "N10",
              "N11", "N12", "N13", "N14", "N15", "N16">>
NoId == "none"

\* titleRaw is a sequence of tokens: "x" a character of text, " " white space,
\* "<" the text [eisenhower:: , "1".."4" the texts q1..q4, ">" the text ] ,
\* "H" the high-priority icon, "T" the highest-priority icon, "L" the
\* low-priority icon, "D" the calendar icon with today's date, "F" the calendar
\* icon with a date far ahead, "E" another due-date icon with the date in two
\* days, "C" the text - [-] of a cancelled task
PlainTitle == <<"x">>

NewItem(id, checked, checkChar) ==
    [type |-> ItemType, id |-> id, checked |-> checked, checkChar |-> checkChar,
     titleRaw |-> PlainTitle]

NewLane(id, complete, sorted, children) ==
    [type |-> LaneType, id |-> id, accepts |-> {ItemType},
     shouldMarkItemsComplete |-> complete, sorted |-> sorted,
     children |-> children]

NewBoard(children, collapse) ==
    [type |-> BoardType, accepts |-> {LaneType}, children |-> children,
     listCollapse |-> collapse]

(* ----------------------------- paths ----------------------------------- *)
Front(p) == SubSeq(p, 1, Len(p) - 1)          \* path.slice(0, -1)
Last(p) == p[Len(p)]                          \* path.last()
Min(a, b) == IF a < b THEN a ELSE b

HasChildren(e) == e.type \in {BoardType, LaneType}

Child(e, i) ==
    IF HasChildren(e) /\ i >= 0 /\ i < Len(e.children)
    THEN e.children[i + 1] ELSE NotFound

RECURSIVE GetEntityFromPath(_, _)
GetEntityFromPath(root, path) ==
    IF path = <<>> THEN root
    ELSE LET c == Child(root, Head(path))
         IN IF c = NotFound THEN NotFound
            ELSE GetEntityFromPath(c, Tail(path))

RECURSIVE SetEntity(_, _, _)
SetEntity(root, path, new) ==
    IF path = <<>> THEN new
    ELSE LET k == Head(path) + 1
         IN [root EXCEPT !.children =
                [root.children EXCEPT ![k] =
                    SetEntity(root.children[k], Tail(path), new)]]

(* Array.prototype.splice(i, 0, ...xs): the start index is clamped *)
InsertAt(s, i, xs) ==
    LET k == Min(i, Len(s))
    IN SubSeq(s, 1, k) \o xs \o SubSeq(s, k + 1, Len(s))

(* Array.prototype.splice(i, 1) *)
RemoveAt(s, i) ==
    IF i < Len(s) THEN SubSeq(s, 1, i) \o SubSeq(s, i + 2, Len(s)) ELSE s

(* ------------------- eisenhower inline field of a title ---------------- *)
Quadrants == {"1", "2", "3", "4"}
NoQuadrant == "null"

SpacesFrom(s, i) ==
    LET stops == {j \in i..Len(s) : s[j] # " "}
    IN IF stops = {} THEN Len(s) + 1 - i
       ELSE (CHOOSE j \in stops : \A k \in stops : j <= k) - i

\* EISENHOWER_FIELD_PATTERN matches at position i
FieldAt(s, i) ==
    i >= 1 /\ i + 2 <= Len(s) /\ s[i] = "<" /\ s[i + 1] \in Quadrants /\ s[i + 2] = ">"

FieldPositions(s) == {i \in 1..Len(s) : FieldAt(s, i)}

GetEisenhowerQuadrant(titleRaw) ==
    IF FieldPositions(titleRaw) = {} THEN NoQuadrant
    ELSE LET i == CHOOSE j \in FieldPositions(titleRaw) :
                      \A k \in FieldPositions(titleRaw) : j <= k
         IN titleRaw[i + 1]

TrimStart(s) == SubSeq(s, 1 + SpacesFrom(s, 1), Len(s))

TrimEnd(s) ==
    LET keep == {j \in 1..Len(s) : s[j] # " "}
    IN IF keep = {} THEN <<>>
       ELSE SubSeq(s, 1, CHOOSE j \in keep : \A k \in keep : k <= j)

Trim(s) == TrimStart(TrimEnd(s))

\* replace(/\s*\[eisenhower::(q[1-4])\]\s*/gi, ''), one pass from the left
RECURSIVE StripFields(_, _)
StripFields(s, i) ==
    IF i > Len(s) THEN <<>>
    ELSE LET j == i + SpacesFrom(s, i)
         IN IF FieldAt(s, j)
            THEN StripFields(s, j + 3 + SpacesFrom(s, j + 3))
            ELSE <<s[i]>> \o StripFields(s, i + 1)

\* replace(/\s{2,}/g, ' ')
RECURSIVE CollapseSpaces(_, _)
CollapseSpaces(s, i) ==
    IF i > Len(s) THEN <<>>
    ELSE IF s[i] = " " THEN <<" ">> \o CollapseSpaces(s, i + SpacesFrom(s, i))
    ELSE <<s[i]>> \o CollapseSpaces(s, i + 1)

SetEisenhowerQuadrant(titleRaw, quadrant) ==
    Trim(CollapseSpaces(StripFields(titleRaw, 1), 1)) \o <<" ", "<", quadrant, ">">>

\* the other version of the helper removes the white space before a field
\* only: replace(/\s*\[eisenhower::(q[1-4])\]/gi, ''), one pass from the left
RECURSIVE StripFieldsLeading(_, _)
StripFieldsLeading(s, i) ==
    IF i > Len(s) THEN <<>>
    ELSE LET j == i + SpacesFrom(s, i)
         IN IF FieldAt(s, j) THEN StripFieldsLeading(s, j + 3)
            ELSE <<s[i]>> \o StripFieldsLeading(s, i + 1)

SetEisenhowerQuadrantLeading(titleRaw, quadrant) ==
    Trim(CollapseSpaces(StripFieldsLeading(titleRaw, 1), 1))
        \o <<" ", "<", quadrant, ">">>

(* ----------------------- handleEisenhowerDrop -------------------------- *)
QuadrantProperties(quadrant) ==
    [isImportant |-> quadrant \in {"1", "2"}, isUrgent |-> quadrant \in {"1", "3"}]

Absent == "absent"          \* null, undefined: a value that is not there

\* the Priority values the code compares with
PRI_HIGHEST == "0"
PRI_HIGH == "1"
PRI_LOW == "4"

PriorityIcons == {"T", "H", "L"}

Has(text, t) == \E i \in 1..Len(text) : text[i] = t

\* the priority of the first icon kind the title includes, highest first
ExtractPriority(text) ==
    IF Has(text, "T") THEN PRI_HIGHEST
    ELSE IF Has(text, "H") THEN PRI_HIGH
    ELSE IF Has(text, "L") THEN PRI_LOW
    ELSE Absent

\* dates written after the calendar icon
CalendarDates == {"D", "F"}

\* the title holds a date after the calendar icon
ExtractDueDate(text) == \E i \in 1..Len(text) : text[i] \in CalendarDates

\* replace(<token> \s*, '') for every occurrence, one pass from the left
RECURSIVE StripToken(_, _, _)
StripToken(s, ts, i) ==
    IF i > Len(s) THEN <<>>
    ELSE IF s[i] \in ts THEN StripToken(s, ts, i + 1 + SpacesFrom(s, i + 1))
    ELSE <<s[i]>> \o StripToken(s, ts, i + 1)

RemovePriorityIcon(text) == Trim(StripToken(text, PriorityIcons, 1))

RemoveDueDate(text) == Trim(StripToken(text, CalendarDates, 1))

\* the token goes before the first eisenhower field, or to the end
InsertBeforeField(text, t) ==
    IF FieldPositions(text) = {} THEN TrimEnd(text) \o <<" ", t>>
    ELSE LET insertPos == CHOOSE j \in FieldPositions(text) :
                              \A k \in FieldPositions(text) : j <= k
         IN TrimEnd(SubSeq(text, 1, insertPos - 1)) \o <<" ", t, " ">>
                \o SubSeq(text, insertPos, Len(text))

AddPriorityIcon(text) == InsertBeforeField(text, "H")

AddDueDate(text) == InsertBeforeField(text, "D")

\* steps 1 to 3 of handleEisenhowerDrop: the title the item is given
UpdatedTitleRaw(titleRaw, targetQuadrant) ==
    LET targetProps == QuadrantProperties(targetQuadrant)
        step1 == SetEisenhowerQuadrant(titleRaw, targetQuadrant)
        step2 == IF targetProps.isImportant
                 THEN IF ExtractPriority(step1) # PRI_HIGH
                      THEN AddPriorityIcon(RemovePriorityIcon(step1))
                      ELSE step1
                 ELSE RemovePriorityIcon(step1)
        step3 == IF targetProps.isUrgent
                 THEN IF ~ExtractDueDate(step2) THEN AddDueDate(step2) ELSE step2
                 ELSE RemoveDueDate(step2)
    IN step3

\* whether handleEisenhowerDrop goes on to updateItem
EisenhowerUpdates(item, targetQuadrant) ==
    GetEisenhowerQuadrant(item.titleRaw) # targetQuadrant

\* mutant: the item handed to updateItem is a new entity
UpdatedItem_NewIdentity(item, targetQuadrant) ==
    [item EXCEPT !.id = "copy",
                 !.titleRaw = UpdatedTitleRaw(item.titleRaw, targetQuadrant)]

\* step 4: the item handed to updateItem
UpdatedItem(item, targetQuadrant) ==
    [item EXCEPT !.titleRaw = UpdatedTitleRaw(item.titleRaw, targetQuadrant)]

\* boardModifiers.updateItem(path, item): the entity at path is set to item
UpdateItem(brd, path, item) ==
    IF GetEntityFromPath(brd, path) = NotFound THEN Thrown
    ELSE SetEntity(brd, path, item)

(* ------------------ importance, urgency, classification ---------------- *)
\* the metadata of an item: the fields the eisenhower helpers read
Metadata(priority, inlinePriority, inlineDue, date, taskId, dependsOn) ==
    [priority |-> priority, inlinePriority |-> inlinePriority,
     inlineDue |-> inlineDue, date |-> date, taskId |-> taskId,
     dependsOn |-> dependsOn]

FirstOf(text, ts) ==
    LET at == {i \in 1..Len(text) : text[i] \in ts}
    IN IF at = {} THEN Absent ELSE text[CHOOSE i \in at : \A k \in at : i <= k]

PriorityOfIcon(icon) ==
    IF icon = "T" THEN PRI_HIGHEST ELSE IF icon = "H" THEN PRI_HIGH ELSE PRI_LOW

\* due dates of a title: the date after any of the three due-date icons
DueDates == {"D", "E", "F"}

\* hydrateItem: priority and date are taken from the first icon of the title
HydratedMetadata(titleRaw, inlinePriority, inlineDue, taskId, dependsOn) ==
    Metadata(IF FirstOf(titleRaw, PriorityIcons) = Absent THEN Absent
             ELSE PriorityOfIcon(FirstOf(titleRaw, PriorityIcons)),
             inlinePriority, inlineDue, FirstOf(titleRaw, DueDates), taskId, dependsOn)

HydratedItem(id, checked, titleRaw, metadata) ==
    [type |-> ItemType, id |-> id, checked |-> checked,
     checkChar |-> IF checked THEN Done ELSE NotDone, titleRaw |-> titleRaw,
     metadata |-> metadata]

IsHighPriority(priority) ==
    IF priority = Absent THEN FALSE ELSE priority \in {PRI_HIGHEST, PRI_HIGH}

GetPriorityFromInlineMetadata(item) == item.metadata.inlinePriority

CheckImportance(item) ==
    IF item.metadata.priority # Absent THEN IsHighPriority(item.metadata.priority)
    ELSE IF GetPriorityFromInlineMetadata(item) # Absent
    THEN IsHighPriority(GetPriorityFromInlineMetadata(item))
    ELSE IsHighPriority(ExtractPriority(item.titleRaw))

\* days from today to the date; "D" is today, "E" two days on, "F" far ahead
DaysAhead(date) == IF date = "D" THEN 0 ELSE IF date = "E" THEN 2 ELSE 30

\* deadline.isSameOrBefore(moment().add(urgentDays, 'days').endOf('day'))
DueWithin(date, urgentDays) == DaysAhead(date) <= urgentDays

\* extractDueDate of the classifier: the first date after a due-date icon
ClassifierExtractDueDate(text) == FirstOf(text, DueDates)

\* checkUrgency(item, urgentDays, false); date and dateStr are set together
CheckUrgency(item, days) ==
    LET extractedDate == ClassifierExtractDueDate(item.titleRaw)
    IN IF extractedDate # Absent THEN DueWithin(extractedDate, days)
       ELSE IF item.metadata.inlineDue # Absent
       THEN DueWithin(item.metadata.inlineDue, days)
       ELSE IF item.metadata.date # Absent /\ ExtractDueDate(item.titleRaw)
       THEN DueWithin(item.metadata.date, days)
       ELSE FALSE

\* titleRaw.trim().startsWith('- [-]')
IsCancelled(titleRaw) == Trim(titleRaw) # <<>> /\ Head(Trim(titleRaw)) = "C"

IsTaskBlocked(item, allItems) ==
    IF item.metadata.dependsOn = Absent THEN FALSE
    ELSE \E k \in 1..Len(allItems) :
            /\ allItems[k].metadata.taskId = item.metadata.dependsOn
            /\ ~allItems[k].checked

\* mutant: a checked item is classified like any other
Skipped_KeepsChecked(item, items) ==
    IsCancelled(item.titleRaw) \/ IsTaskBlocked(item, items)

\* the three filters of classifyEisenhower
Skipped(item, items) ==
    item.checked \/ IsCancelled(item.titleRaw) \/ IsTaskBlocked(item, items)

ClassifyQuadrant(isImportant, isUrgent) ==
    IF isImportant /\ isUrgent THEN "1"
    ELSE IF isImportant /\ ~isUrgent THEN "2"
    ELSE IF ~isImportant /\ isUrgent THEN "3"
    ELSE "4"

\* mutant: the inline field is not looked at
ClassifiedQuadrant_IgnoresField(item, days) ==
    ClassifyQuadrant(CheckImportance(item), CheckUrgency(item, days))

\* targetQuadrant of an item that passed the filters
ClassifiedQuadrant(item, days) ==
    LET metadataQuadrant == GetEisenhowerQuadrant(item.titleRaw)
    IN IF metadataQuadrant # NoQuadrant THEN metadataQuadrant
       ELSE ClassifyQuadrant(CheckImportance(item), CheckUrgency(item, days))

\* result[quadrant].items, filled by the forEach from item k on
RECURSIVE QuadrantItems(_, _, _, _)
QuadrantItems(items, k, quadrant, days) ==
    IF k > Len(items) THEN <<>>
    ELSE (IF ~Skipped(items[k], items) /\ ClassifiedQuadrant(items[k], days) = quadrant
          THEN <<items[k]>> ELSE <<>>)
             \o QuadrantItems(items, k + 1, quadrant, days)

ClassifyEisenhower(items, days) ==
    [quadrant \in Quadrants |-> QuadrantItems(items, 1, quadrant, days)]

(* ---------- the classifier that reads priority and date only ----------- *)
\* getTaskPriority: the hydrated priority, else the inline priority field,
\* else the first of the icons, highest first, that the title includes
GetTaskPriority(item) ==
    IF item.metadata.priority # Absent THEN item.metadata.priority
    ELSE IF item.metadata.inlinePriority # Absent THEN item.metadata.inlinePriority
    ELSE ExtractPriority(item.titleRaw)

IsImportantPriority(priority) ==
    IF priority = Absent THEN FALSE ELSE priority \in {PRI_HIGHEST, PRI_HIGH}

\* isTaskUrgent: the hydrated date is at most three days ahead
IsTaskUrgent(item) ==
    IF item.metadata.date = Absent THEN FALSE ELSE DaysAhead(item.metadata.date) <= 3

\* titleRaw.startsWith('- [-]')
StartsCancelled(titleRaw) == titleRaw # <<>> /\ Head(titleRaw) = "C"

SkippedByPriority(item, items) ==
    item.checked \/ StartsCancelled(item.titleRaw) \/ IsTaskBlocked(item, items)

\* the item as pushed: isImportant and isUrgent are set on it
EisenhowerItem(item) ==
    [isImportant |-> IsImportantPriority(GetTaskPriority(item)),
     isUrgent |-> IsTaskUrgent(item)] @@ item

RECURSIVE QuadrantItemsByPriority(_, _, _)
QuadrantItemsByPriority(items, k, quadrant) ==
    IF k > Len(items) THEN <<>>
    ELSE (IF /\ ~SkippedByPriority(items[k], items)
             /\ ClassifyQuadrant(IsImportantPriority(GetTaskPriority(items[k])),
                                 IsTaskUrgent(items[k])) = quadrant
          THEN <<EisenhowerItem(items[k])>> ELSE <<>>)
             \o QuadrantItemsByPriority(items, k + 1, quadrant)

ClassifyEisenhowerByPriority(items) ==
    [quadrant \in Quadrants |-> QuadrantItemsByPriority(items, 1, quadrant)]

(* ----------------------------- auto tagging ---------------------------- *)
NoTitle == <<"null">>       \* addEisenhowerTagToItem returned null

TagQuadrant(isImportant, isUrgent) ==
    IF isImportant /\ isUrgent THEN "1"
    ELSE IF isImportant /\ ~isUrgent THEN "2"
    ELSE IF ~isImportant /\ isUrgent THEN "3"
    ELSE "4"

\* the quadrant addEisenhowerTagToItem computes for the item
ComputedQuadrant(item, days) ==
    TagQuadrant(CheckImportance(item), CheckUrgency(item, days))

AddEisenhowerTagToItem(item, days) ==
    LET targetQuadrant == ComputedQuadrant(item, days)
        existingTag == GetEisenhowerQuadrant(item.titleRaw)
    IN IF existingTag # NoQuadrant /\ existingTag = targetQuadrant THEN NoTitle
       ELSE SetEisenhowerQuadrant(item.titleRaw, targetQuadrant)

\* updates, filled by the forEach from item k on
RECURSIVE TagUpdates(_, _, _)
TagUpdates(items, k, days) ==
    IF k > Len(items) THEN <<>>
    ELSE LET newTitleRaw == AddEisenhowerTagToItem(items[k], days)
         IN (IF newTitleRaw # NoTitle /\ newTitleRaw # <<>>
             THEN <<[item |-> items[k], newTitleRaw |-> newTitleRaw]>>
             ELSE <<>>) \o TagUpdates(items, k + 1, days)

AddEisenhowerTagsToAllItems(items, days) == TagUpdates(items, 1, days)

(* ------------------------- mutation algebra ---------------------------- *)
Accepts(parent, e) == HasChildren(parent) /\ e.type \in parent.accepts

InsertAccepted(root, path, ents) ==
    /\ path # <<>>
    /\ LET parent == GetEntityFromPath(root, Front(path))
       IN /\ parent # NotFound
          /\ \A k \in 1..Len(ents) : Accepts(parent, ents[k])

InsertEntity(root, path, ents) ==
    IF ~InsertAccepted(root, path, ents) THEN root
    ELSE LET parent == GetEntityFromPath(root, Front(path))
         IN SetEntity(root, Front(path),
                [parent EXCEPT !.children = InsertAt(@, Last(path), ents)])

RemoveEntity(root, path, replacement) ==
    IF path = <<>> \/ GetEntityFromPath(root, path) = NotFound THEN root
    ELSE LET parent == GetEntityFromPath(root, Front(path))
             i == Last(path)
         IN SetEntity(root, Front(path),
                [parent EXCEPT !.children =
                    IF replacement = None THEN RemoveAt(@, i)
                    ELSE [@ EXCEPT ![i + 1] = replacement]])

IsSibling(from, to) == Len(from) = Len(to) /\ Front(from) = Front(to)

CorrectedPath(from, to) ==
    IF IsSibling(from, to) /\ Last(from) < Last(to)
    THEN [to EXCEPT ![Len(to)] = @ - 1] ELSE to

\* moved and replacement are transform(entity) and replace(entity) for the
\* entity at from
MoveEntity(root, from, to, moved, replacement) ==
    LET entity == GetEntityFromPath(root, from)
    IN IF entity = NotFound THEN root
       ELSE IF replacement = Thrown \/ moved = Thrown THEN Thrown
       ELSE LET tree1 == RemoveEntity(root, from, replacement)
                dest == CorrectedPath(from, to)
            IN IF InsertAccepted(tree1, dest, <<moved>>)
               THEN InsertEntity(tree1, dest, <<moved>>)
               ELSE root

UnsetSorted(root, path) ==
    LET e == GetEntityFromPath(root, path)
    IN IF e.type = LaneType THEN SetEntity(root, path, [e EXCEPT !.sorted = FALSE])
       ELSE root

(* ---------------------- completion transform hook ---------------------- *)
HookOutcomes == {"plain", "split", "throw"}

MarksComplete(parent) ==
    parent.type = LaneType /\ parent.shouldMarkItemsComplete

MaybeCompleteForMove(sourceBoard, sourcePath, destinationBoard, destinationPath, item, outcome, freshId) ==
    LET oldShouldComplete ==
            MarksComplete(GetEntityFromPath(sourceBoard, Front(sourcePath)))
        newShouldComplete ==
            MarksComplete(GetEntityFromPath(destinationBoard, Front(destinationPath)))
    IN IF outcome = "throw" THEN Thrown
       ELSE IF oldShouldComplete = newShouldComplete
            THEN [next |-> item, replacement |-> None]
            ELSE [next |-> [item EXCEPT
                              !.checked = newShouldComplete,
                              !.checkChar = IF newShouldComplete THEN Done ELSE NotDone],
                  replacement |-> IF outcome = "split"
                                  THEN NewItem(freshId, FALSE, NotDone)
                                  ELSE None]

(* --------------------------- state holder ------------------------------ *)
SetStateBoard(old, result) == IF result = Thrown THEN old ELSE result
SetStateError(oldError, result) == oldError \/ result = Thrown

(* ------------------------ gesture interface ---------------------------- *)
\* payload of a drop handle: a lane sorts among lanes, an item carries no
\* acceptsSort
DropData(e) ==
    [type |-> e.type,
     hasAcceptsSort |-> e.type = LaneType,
     acceptsSort |-> IF e.type = LaneType THEN {LaneType} ELSE {}]

\* the drag layer delivers a drop only on a handle that takes the dragged type
CanDropOn(dragType, dropType) ==
    \/ dragType = ItemType /\ dropType \in {ItemType, LaneType}
    \/ dragType = LaneType /\ dropType = LaneType

PathType(p) == IF Len(p) = 1 THEN LaneType ELSE ItemType

LanePaths(b) == {<<l>> : l \in 0..(Len(b.children) - 1)}
ItemPaths(b) ==
    UNION {{<<l, i>> : i \in 0..(Len(b.children[l + 1].children) - 1)} :
             l \in 0..(Len(b.children) - 1)}
EntityPaths(b) == LanePaths(b) \cup ItemPaths(b)
StalePaths == {<<StaleIndex>>, <<StaleIndex, 0>>}
DragPaths(b) == EntityPaths(b) \cup StalePaths
DropPaths(b, dragType) ==
    {p \in EntityPaths(b) : CanDropOn(dragType, GetEntityFromPath(b, p).type)}

InDropArea(dropEntityData, dragType) ==
    dropEntityData.hasAcceptsSort /\ dragType \notin dropEntityData.acceptsSort

(* ------------------- handleDrop: same-board branch --------------------- *)
\* mutant: the dragged item is inserted as it was, the hook's result unused
TransformMoved_Unadjusted(brd, dragPath, dropPath, outcome, freshId, entity) ==
    IF entity.type = ItemType
    THEN LET r == MaybeCompleteForMove(brd, dragPath, brd, dropPath,
                                       entity, outcome, freshId)
         IN IF r = Thrown THEN Thrown ELSE entity
    ELSE entity

TransformMoved(brd, dragPath, dropPath, outcome, freshId, entity) ==
    IF entity.type = ItemType
    THEN LET r == MaybeCompleteForMove(brd, dragPath, brd, dropPath,
                                       entity, outcome, freshId)
         IN IF r = Thrown THEN Thrown ELSE r.next
    ELSE entity

\* mutant: the dragged item itself is left behind at the source
TransformReplacement_LeavesCopy(brd, dragPath, dropPath, outcome, freshId, entity) ==
    IF entity.type = ItemType
    THEN LET r == MaybeCompleteForMove(brd, dragPath, brd, dropPath,
                                       entity, outcome, freshId)
         IN IF r = Thrown THEN Thrown ELSE entity
    ELSE None

TransformReplacement(brd, dragPath, dropPath, outcome, freshId, entity) ==
    IF entity.type = ItemType
    THEN LET r == MaybeCompleteForMove(brd, dragPath, brd, dropPath,
                                       entity, outcome, freshId)
         IN IF r = Thrown THEN Thrown ELSE r.replacement
    ELSE None

\* mutant: the forward-move correction is not applied to the collapse array
SameBoardCollapseOp_NoCorrection(collapsedState, from, dropLast) ==
    LET taken == IF from < Len(collapsedState) THEN collapsedState[from + 1]
                 ELSE FALSE
    IN InsertAt(RemoveAt(collapsedState, from), dropLast, <<taken>>)

\* op of the same-board lane move; an index outside the array reads undefined,
\* which the collapse array treats as not collapsed
SameBoardCollapseOp(collapsedState, from, dropLast) ==
    LET to == IF from < dropLast THEN dropLast - 1 ELSE dropLast
        taken == IF from < Len(collapsedState) THEN collapsedState[from + 1]
                 ELSE FALSE
    IN InsertAt(RemoveAt(collapsedState, from), to, <<taken>>)

\* mutant: the entity is inserted at the drop index as given, whatever the
\* removal did to the indices after the source
SameBoardMoved_IndexAsGiven(brd, dragPath, dropPath, outcome, freshId) ==
    LET entity == GetEntityFromPath(brd, dragPath)
        moved == TransformMoved(brd, dragPath, dropPath, outcome, freshId, entity)
        replacement ==
            TransformReplacement(brd, dragPath, dropPath, outcome, freshId, entity)
    IN IF entity = NotFound THEN brd
       ELSE IF moved = Thrown \/ replacement = Thrown THEN Thrown
       ELSE InsertEntity(RemoveEntity(brd, dragPath, replacement), dropPath, <<moved>>)

SameBoardMoved(brd, dragPath, dropPath, outcome, freshId) ==
    LET entity == GetEntityFromPath(brd, dragPath)
    IN MoveEntity(brd, dragPath, dropPath,
                  TransformMoved(brd, dragPath, dropPath, outcome, freshId, entity),
                  TransformReplacement(brd, dragPath, dropPath, outcome, freshId, entity))

\* mutant: no early return for an unresolved drag path; reading entity.type
\* of the missing entity then throws
SameBoardUpdater_NoLookupGuard(brd, collapsedState, dragPath, dropPath, outcome, freshId) ==
    LET entity == GetEntityFromPath(brd, dragPath)
        newBoard == SameBoardMoved(brd, dragPath, dropPath, outcome, freshId)
    IN IF entity = NotFound \/ newBoard = Thrown THEN Thrown
       ELSE IF entity.type = LaneType
       THEN [newBoard EXCEPT !.listCollapse =
                SameBoardCollapseOp(collapsedState, Last(dragPath), Last(dropPath))]
       ELSE LET destinationParentPath == Front(dropPath)
                destinationParent == GetEntityFromPath(brd, destinationParentPath)
            IN IF destinationParent.type = LaneType /\ destinationParent.sorted
               THEN UnsetSorted(newBoard, destinationParentPath)
               ELSE newBoard

SameBoardUpdater(brd, collapsedState, dragPath, dropPath, outcome, freshId) ==
    LET entity == GetEntityFromPath(brd, dragPath)
    IN IF entity = NotFound THEN brd
       ELSE LET newBoard == SameBoardMoved(brd, dragPath, dropPath, outcome, freshId)
            IN IF newBoard = Thrown THEN Thrown
               ELSE IF entity.type = LaneType
               THEN [newBoard EXCEPT !.listCollapse =
                        SameBoardCollapseOp(collapsedState, Last(dragPath), Last(dropPath))]
               ELSE LET destinationParentPath == Front(dropPath)
                        destinationParent == GetEntityFromPath(brd, destinationParentPath)
                    IN IF destinationParent.type = LaneType /\ destinationParent.sorted
                       THEN UnsetSorted(newBoard, destinationParentPath)
                       ELSE newBoard

\* mutant: the view's collapse array is not touched by a lane move
SameBoardViewState_Untouched(brd, collapsedState, dragPath, dropPath, outcome, freshId) ==
    collapsedState

\* view.setViewState('list-collapse', undefined, op) inside the updater
SameBoardViewState(brd, collapsedState, dragPath, dropPath, outcome, freshId) ==
    LET entity == GetEntityFromPath(brd, dragPath)
    IN IF /\ entity # NotFound
          /\ entity.type = LaneType
          /\ SameBoardMoved(brd, dragPath, dropPath, outcome, freshId) # Thrown
       THEN SameBoardCollapseOp(collapsedState, Last(dragPath), Last(dropPath))
       ELSE collapsedState

SameBoardDropPath(dropEntityPath, inDropArea) ==
    IF inDropArea THEN Append(dropEntityPath, 0) ELSE dropEntityPath

(* ----------------------------- state ----------------------------------- *)
VARIABLES
    board,            \* board[d]: the current-tree slot of document d
    viewState,        \* viewState[d]: view.getViewState('list-collapse')
    error,            \* error[d]: the error slot of document d is set
    insertionMethod,  \* the 'new-card-insertion-method' setting
    gestures,         \* drop gestures handled so far
    last,             \* the gesture handled last
    before,           \* board, viewState and error as that gesture found them
    commits,          \* the setState calls of that gesture, in order of completion
    pending,          \* the handleEisenhowerDrop call waiting at its await, or None
    applied,          \* the helper applied last: its argument and what it returned
    urgentDays,       \* the 'eisenhower-urgent-days' setting the view reads
    autoTagRef,       \* autoTagRef.current of the mounted EisenhowerView
    effectDue,        \* a dependency of the auto-tag effect changed since it ran
    classified,       \* the classification the view rendered last
    batches,          \* the updateItem calls of the mounted view's effect, per run
    mounts,           \* EisenhowerView instances mounted so far
    edits             \* changes made to the board while the view is shown

viewVars == <<applied, urgentDays, autoTagRef, effectDue, classified, batches, mounts,
              edits>>

vars == <<board, viewState, error, insertionMethod, gestures, last, before, commits,
          pending, viewVars>>

Snapshot == [board |-> board, viewState |-> viewState, error |-> error]

NoGesture ==
    [kind |-> "none", src |-> "A", dst |-> "A", dragPath |-> <<>>,
     dropPath |-> <<>>, dragType |-> "none", entity |-> NoId,
     outcome |-> "plain", inDropArea |-> FALSE]

Gesture(kind, src, dst, dragPath, dropPath, dragType, entity, outcome, inDropArea) ==
    [kind |-> kind, src |-> src, dst |-> dst, dragPath |-> dragPath,
     dropPath |-> dropPath, dragType |-> dragType, entity |-> entity,
     outcome |-> outcome, inDropArea |-> inDropArea]

\* the k-th item id getNewItem creates during the current gesture
FreshId(k) == FreshIds[gestures * (MaxContent + 1) + k]

\* one completed setState call: the document, whether its updater threw, and
\* what the slots and the collapse accessors hold when its receivers are told
Commit(d, result, boards, views) ==
    [doc |-> d, threw |-> result = Thrown, board |-> boards, viewState |-> views]

EntityId(e) == IF e.type \in {LaneType, ItemType} THEN e.id ELSE NoId

\* what the hook can do in a gesture: it runs only for an item the drag path
\* resolves, and leaves a replacement only across a completion-flag boundary
Outcomes(sourceBoard, dragPath, destinationBoard, dropEntityPath) ==
    LET entity == GetEntityFromPath(sourceBoard, dragPath)
        target == GetEntityFromPath(destinationBoard, dropEntityPath)
        old == MarksComplete(GetEntityFromPath(sourceBoard, Front(dragPath)))
        new == IF target.type = LaneType THEN MarksComplete(target)
               ELSE MarksComplete(GetEntityFromPath(destinationBoard,
                                                    Front(dropEntityPath)))
    IN IF entity.type # ItemType THEN {"plain"}
       ELSE IF old = new THEN HookOutcomes \ {"split"}
       ELSE HookOutcomes

\* no helper applied yet; item is the argument the helper will be given
Unapplied(item) ==
    [fn |-> "none", item |-> item, quadrant |-> NoQuadrant, result |-> <<>>,
     again |-> <<>>, days |-> 3, rerun |-> <<>>]

\* nothing rendered yet; a classification is kept with the items and the
\* setting it was computed from
NoClassification ==
    [scheme |-> "none", items |-> <<>>, days |-> 3,
     quadrants |-> [q \in Quadrants |-> <<>>]]

\* no EisenhowerView is mounted
ViewUnmounted ==
    /\ urgentDays = 3
    /\ autoTagRef = FALSE
    /\ effectDue = FALSE
    /\ classified = NoClassification
    /\ batches = <<>>
    /\ mounts = 0
    /\ edits = 0

NoView == applied = Unapplied(NewItem(NoId, FALSE, NotDone)) /\ ViewUnmounted

InitBoardA ==
    NewBoard(<<NewLane(L0, FALSE, FALSE,
                       <<NewItem(I0, FALSE, NotDone), NewItem(I1, FALSE, NotDone)>>),
               NewLane(L1, TRUE, TRUE,
                       <<[NewItem(I2, TRUE, Done) EXCEPT
                             !.titleRaw = <<"x", " ", "<", "1", ">">>]>>)>>,
             <<FALSE, TRUE>>)

InitBoardB(complete) ==
    NewBoard(<<NewLane(M0, complete, TRUE,
                       <<NewItem(I3, complete, IF complete THEN Done ELSE NotDone)>>)>>,
             <<TRUE>>)

Init ==
    /\ \E complete \in BOOLEAN :
          board = [d \in Docs |-> IF d = "A" THEN InitBoardA ELSE InitBoardB(complete)]
    /\ viewState = [d \in Docs |-> board[d].listCollapse]
    /\ error = [d \in Docs |-> FALSE]
    /\ insertionMethod \in {"append", "prepend"}
    /\ gestures = 0
    /\ last = NoGesture
    /\ before = Snapshot
    /\ commits = <<>>
    /\ pending = None
    /\ NoView

SameBoardDrop(d, dragPath, dropEntityPath, outcome) ==
    LET dragType == PathType(dragPath)
        dropEntityData == DropData(GetEntityFromPath(board[d], dropEntityPath))
        inDropArea == InDropArea(dropEntityData, dragType)
        dropPath == SameBoardDropPath(dropEntityPath, inDropArea)
        freshId == FreshId(1)
        result == SameBoardUpdater(board[d], viewState[d], dragPath, dropPath,
                                   outcome, freshId)
        newBoards == [board EXCEPT ![d] = SetStateBoard(@, result)]
        newViews == [viewState EXCEPT ![d] =
              SameBoardViewState(board[d], @, dragPath, dropPath, outcome, freshId)]
    IN /\ gestures < MaxGestures
       /\ pending = None
       /\ board' = newBoards
       /\ error' = [error EXCEPT ![d] = SetStateError(@, result)]
       /\ viewState' = newViews
       /\ commits' = <<Commit(d, result, newBoards, newViews)>>
       /\ gestures' = gestures + 1
       /\ UNCHANGED <<pending, viewVars>>
       /\ before' = Snapshot
       /\ last' = Gesture("same", d, d, dragPath, dropPath, dragType,
                          EntityId(GetEntityFromPath(board[d], dragPath)),
                          outcome, inDropArea)
       /\ UNCHANGED insertionMethod

SameBoard ==
    \E d \in Docs : \E dragPath \in DragPaths(board[d]) :
        \E dropEntityPath \in DropPaths(board[d], PathType(dragPath)) :
            \E outcome \in Outcomes(board[d], dragPath, board[d], dropEntityPath) :
                SameBoardDrop(d, dragPath, dropEntityPath, outcome)

(* ----------------- handleDrop: cross-document branch ------------------- *)
CrossDropPath(destinationState, dropEntityPath, inDropArea, method) ==
    IF inDropArea
    THEN LET parent == GetEntityFromPath(destinationState, dropEntityPath)
             shouldAppend == method = "append"
         IN IF shouldAppend
            THEN Append(dropEntityPath,
                        IF HasChildren(parent) THEN Len(parent.children) ELSE 0)
            ELSE Append(dropEntityPath, 0)
    ELSE dropEntityPath

CrossHook(sourceBoard, destinationBoard, entity, dragPath, dropPath, outcome, freshId) ==
    MaybeCompleteForMove(sourceBoard, dragPath, destinationBoard, dropPath,
                         entity, outcome, freshId)

DestinationCollapseOp(collapsedState, dropLast, val) ==
    InsertAt(collapsedState, dropLast, <<val>>)

CollapseAt(collapsedState, i) ==
    IF i < Len(collapsedState) THEN collapsedState[i + 1] ELSE FALSE

DestinationUpdater(sourceBoard, destinationBoard, sourceCollapse, destinationCollapse, entity, dragPath, dropPath, outcome, freshId) ==
    LET hook == CrossHook(sourceBoard, destinationBoard, entity, dragPath,
                          dropPath, outcome, freshId)
    IN IF entity.type = ItemType
       THEN IF hook = Thrown THEN Thrown
            ELSE InsertEntity(destinationBoard, dropPath, <<hook.next>>)
       ELSE IF entity.type = LaneType
       THEN [InsertEntity(destinationBoard, dropPath, <<entity>>) EXCEPT
                !.listCollapse =
                    DestinationCollapseOp(destinationCollapse, Last(dropPath),
                        CollapseAt(sourceCollapse, Last(dragPath)))]
       ELSE InsertEntity(destinationBoard, dropPath, <<entity>>)

\* replacementEntity: assigned inside the destination updater, read after it
ReplacementEntity(sourceBoard, destinationBoard, entity, dragPath, dropPath, outcome, freshId) ==
    LET hook == CrossHook(sourceBoard, destinationBoard, entity, dragPath,
                          dropPath, outcome, freshId)
    IN IF entity.type = ItemType /\ hook # Thrown THEN hook.replacement ELSE None

\* mutant: the destination collapse array grows whatever the entity is
DestinationViewState_NoLaneGuard(sourceCollapse, destinationCollapse, entity, dragPath, dropPath) ==
    DestinationCollapseOp(destinationCollapse, Last(dropPath),
                          CollapseAt(sourceCollapse, Last(dragPath)))

DestinationViewState(sourceCollapse, destinationCollapse, entity, dragPath, dropPath) ==
    IF entity.type = LaneType
    THEN DestinationCollapseOp(destinationCollapse, Last(dropPath),
                               CollapseAt(sourceCollapse, Last(dragPath)))
    ELSE destinationCollapse

\* mutant: the source collapse array keeps the flag of the lane that left
SourceCollapseOp_KeepsFlag(collapsedState, dragLast) == collapsedState

SourceCollapseOp(collapsedState, dragLast) == RemoveAt(collapsedState, dragLast)

\* mutant: the item is not taken out of the source board
SourceUpdater_KeepsItem(sourceBoard, sourceCollapse, entity, dragPath, replacementEntity) ==
    IF entity.type = LaneType
    THEN [RemoveEntity(sourceBoard, dragPath, None) EXCEPT
             !.listCollapse = RemoveAt(sourceCollapse, Last(dragPath))]
    ELSE sourceBoard

SourceUpdater(sourceBoard, sourceCollapse, entity, dragPath, replacementEntity) ==
    IF entity.type = LaneType
    THEN [RemoveEntity(sourceBoard, dragPath, None) EXCEPT
             !.listCollapse = SourceCollapseOp(sourceCollapse, Last(dragPath))]
    ELSE RemoveEntity(sourceBoard, dragPath, replacementEntity)

SourceViewState(sourceCollapse, entity, dragPath) ==
    IF entity.type = LaneType THEN SourceCollapseOp(sourceCollapse, Last(dragPath))
    ELSE sourceCollapse

\* mutant: the destination document's state holder is never called
CrossCommits_SourceOnly(destinationCommit, sourceCommit) == <<sourceCommit>>

\* the destination setState is called, and completes, inside the source
\* updater; the source setState completes when that updater returns
CrossCommits(destinationCommit, sourceCommit) == <<destinationCommit, sourceCommit>>

CrossBoardDrop(s, d, dragPath, dropEntityPath, outcome) ==
    LET dragType == PathType(dragPath)
        dropEntityData == DropData(GetEntityFromPath(board[d], dropEntityPath))
        inDropArea == InDropArea(dropEntityData, dragType)
        entity == GetEntityFromPath(board[s], dragPath)
        dropPath == CrossDropPath(board[d], dropEntityPath, inDropArea, insertionMethod)
        freshId == FreshId(1)
        destinationResult ==
            DestinationUpdater(board[s], board[d], viewState[s], viewState[d],
                               entity, dragPath, dropPath, outcome, freshId)
        replacementEntity ==
            ReplacementEntity(board[s], board[d], entity, dragPath, dropPath,
                              outcome, freshId)
        sourceResult ==
            SourceUpdater(board[s], viewState[s], entity, dragPath, replacementEntity)
        \* the nested destination setState completes while the source updater runs
        destinationBoards == [board EXCEPT ![d] = SetStateBoard(@, destinationResult)]
        destinationViews == [viewState EXCEPT ![d] =
            DestinationViewState(viewState[s], @, entity, dragPath, dropPath)]
        sourceBoards == [destinationBoards EXCEPT ![s] = SetStateBoard(@, sourceResult)]
        sourceViews == [destinationViews EXCEPT ![s] =
            SourceViewState(@, entity, dragPath)]
    IN /\ gestures < MaxGestures
       /\ pending = None
       /\ s # d
       /\ IF entity = NotFound
          THEN /\ board' = [board EXCEPT ![s] = SetStateBoard(@, board[s])]
               /\ commits' = <<Commit(s, board[s], board, viewState)>>
               /\ UNCHANGED <<error, viewState>>
          ELSE /\ board' = sourceBoards
               /\ error' = [error EXCEPT
                      ![d] = SetStateError(@, destinationResult),
                      ![s] = SetStateError(@, sourceResult)]
               /\ viewState' = sourceViews
               /\ commits' =
                      CrossCommits(Commit(d, destinationResult, destinationBoards,
                                          destinationViews),
                                   Commit(s, sourceResult, sourceBoards, sourceViews))
       /\ gestures' = gestures + 1
       /\ UNCHANGED <<pending, viewVars>>
       /\ before' = Snapshot
       /\ last' = Gesture("cross", s, d, dragPath,
                          IF entity = NotFound THEN dropEntityPath ELSE dropPath,
                          dragType, EntityId(entity), outcome, inDropArea)
       /\ UNCHANGED insertionMethod

CrossBoard ==
    \E s \in Docs : \E d \in Docs \ {s} : \E dragPath \in DragPaths(board[s]) :
        \E dropEntityPath \in DropPaths(board[d], PathType(dragPath)) :
            \E outcome \in Outcomes(board[s], dragPath, board[d], dropEntityPath) :
                CrossBoardDrop(s, d, dragPath, dropEntityPath, outcome)

(* --------------------- handleDrop: htmldnd branch ---------------------- *)
HtmlOutcomes == {"plain", "throw"}

\* mutant: the new item is left as getNewItem(title, ' ') made it
HtmlItem_Unchecked(freshId, destinationParent) == NewItem(freshId, FALSE, NotDone)

\* one materialized item: checked and checkChar follow the destination lane
HtmlItem(freshId, destinationParent) ==
    LET isComplete == MarksComplete(destinationParent)
    IN NewItem(freshId, isComplete, IF isComplete THEN Done ELSE NotDone)

HtmlItems(state, dropPath, count) ==
    LET destinationParent == GetEntityFromPath(state, Front(dropPath))
    IN [k \in 1..count |-> HtmlItem(FreshId(k), destinationParent)]

\* mutant: the items take the place of the entity dropped on
HtmlUpdater_Replaces(brd, dropPath, items) ==
    InsertEntity(RemoveEntity(brd, dropPath, None), dropPath, items)

\* the updater handed to setState
HtmlUpdater(brd, dropPath, items) == InsertEntity(brd, dropPath, items)

HtmlDndDrop(d, dropEntityPath, count, outcome) ==
    LET dropPath == dropEntityPath
        items == HtmlItems(board[d], dropPath, count)
        result == HtmlUpdater(board[d], dropPath, items)
        newBoards == [board EXCEPT ![d] = SetStateBoard(@, result)]
    IN /\ gestures < MaxGestures
       /\ pending = None
       /\ IF outcome = "throw"
          THEN /\ error' = [error EXCEPT ![d] = TRUE]
               /\ commits' = <<>>
               /\ UNCHANGED board
          ELSE /\ board' = newBoards
               /\ error' = [error EXCEPT ![d] = SetStateError(@, result)]
               /\ commits' = <<Commit(d, result, newBoards, viewState)>>
       /\ gestures' = gestures + 1
       /\ UNCHANGED <<pending, viewVars>>
       /\ before' = Snapshot
       /\ last' = Gesture("html", d, d, <<>>, dropPath, ItemType, NoId,
                          outcome, FALSE)
       /\ UNCHANGED <<viewState, insertionMethod>>

HtmlDnd ==
    \E d \in Docs : \E dropEntityPath \in DropPaths(board[d], ItemType) :
        \E count \in 1..MaxContent : \E outcome \in HtmlOutcomes :
            HtmlDndDrop(d, dropEntityPath, count, outcome)

(* -------------------- handleDrop: Eisenhower branch -------------------- *)
TargetQuadrant(isImportant, isUrgent) ==
    IF isImportant /\ isUrgent THEN "1"
    ELSE IF isImportant /\ ~isUrgent THEN "2"
    ELSE IF ~isImportant /\ isUrgent THEN "3"
    ELSE "4"

\* the call is not awaited: handleDrop returns while handleEisenhowerDrop
\* waits at its await import, with the item it was given
EisenhowerDrop(d, dragPath, isImportant, isUrgent) ==
    LET item == GetEntityFromPath(board[d], dragPath)
        targetQuadrant == TargetQuadrant(isImportant, isUrgent)
    IN /\ gestures < MaxGestures
       /\ pending = None
       /\ pending' = IF item # NotFound
                     THEN [doc |-> d, item |-> item, sourcePath |-> dragPath,
                           targetQuadrant |-> targetQuadrant]
                     ELSE None
       /\ gestures' = gestures + 1
       /\ before' = Snapshot
       /\ commits' = <<>>
       /\ last' = Gesture("eisenhower", d, d, dragPath, <<>>, ItemType,
                          EntityId(item), targetQuadrant, FALSE)
       /\ UNCHANGED <<board, viewState, error, insertionMethod, viewVars>>

Eisenhower ==
    \E d \in Docs : \E dragPath \in ItemPaths(board[d]) \cup {<<StaleIndex, 0>>} :
        \E isImportant \in BOOLEAN : \E isUrgent \in BOOLEAN :
            EisenhowerDrop(d, dragPath, isImportant, isUrgent)

\* handleEisenhowerDrop after its await; it runs before the next gesture
EisenhowerContinue ==
    /\ pending # None
    /\ LET d == pending.doc
           result == UpdateItem(board[d], pending.sourcePath,
                                UpdatedItem(pending.item, pending.targetQuadrant))
           newBoards == [board EXCEPT ![d] = SetStateBoard(@, result)]
       IN IF EisenhowerUpdates(pending.item, pending.targetQuadrant)
          THEN /\ board' = newBoards
               /\ error' = [error EXCEPT ![d] = SetStateError(@, result)]
               /\ commits' = <<Commit(d, result, newBoards, viewState)>>
          ELSE UNCHANGED <<board, error, commits>>
    /\ pending' = None
    /\ UNCHANGED <<viewState, insertionMethod, gestures, last, before, viewVars>>

Next == SameBoard \/ CrossBoard \/ HtmlDnd \/ Eisenhower \/ EisenhowerContinue

Spec == Init /\ [][Next]_vars

(* ------------- handleDrop from its entry: lines 44 to 103 --------------- *)
\* what the name dragEntityData holds when line 94 reads it, three lines ahead
\* of its declaration: a const is not yet initialized there; where the build
\* has turned const into var the name holds undefined
BindingsAtRead == {"uninitialized", "undefined"}

\* dragEntityData.originalPath: the read of an uninitialized const raises a
\* ReferenceError, the read of a property of undefined a TypeError
ReadOriginalPath(binding) ==
    IF binding = "uninitialized" THEN "ReferenceError" ELSE "TypeError"

\* a drop whose drag scope is not htmldnd: the handler is left by the
\* exception before dropPath, the payloads and the topology are looked at
DropRaises(s, d, dragPath, dropEntityPath, binding) ==
    /\ gestures < MaxGestures
    /\ pending = None
    /\ gestures' = gestures + 1
    /\ before' = Snapshot
    /\ commits' = <<>>
    /\ last' = Gesture("raised", s, d, dragPath, dropEntityPath, PathType(dragPath),
                       EntityId(GetEntityFromPath(board[s], dragPath)),
                       ReadOriginalPath(binding), FALSE)
    /\ UNCHANGED <<board, viewState, error, insertionMethod, pending, viewVars>>

Raises ==
    \E s \in Docs : \E d \in Docs : \E dragPath \in DragPaths(board[s]) :
        \E dropEntityPath \in DropPaths(board[d], PathType(dragPath)) :
            \E binding \in BindingsAtRead :
                DropRaises(s, d, dragPath, dropEntityPath, binding)

NextEntry == HtmlDnd \/ Raises

SpecEntry == Init /\ [][NextEntry]_vars

(* handleEisenhowerDrop on every title of up to MaxTitle tokens *)
TitleTokens == {"x", " ", "<", "1", ">", "H", "D", "T", "L", "F", "E"}
Titles(maxLen) == UNION {[1..n -> TitleTokens] : n \in 0..maxLen}

InitEisenhower ==
    /\ \E titleRaw \in Titles(MaxTitle) :
          board = [d \in Docs |->
                    IF d = "A"
                    THEN NewBoard(<<NewLane(L0, FALSE, FALSE,
                                     <<HydratedItem(I0, FALSE, titleRaw,
                                          HydratedMetadata(titleRaw, Absent, Absent,
                                                           Absent, Absent))>>)>>,
                                  <<FALSE>>)
                    ELSE NewBoard(<<>>, <<>>)]
    /\ viewState = [d \in Docs |-> board[d].listCollapse]
    /\ error = [d \in Docs |-> FALSE]
    /\ insertionMethod = "append"
    /\ gestures = 0
    /\ last = NoGesture
    /\ before = Snapshot
    /\ commits = <<>>
    /\ pending = None
    /\ NoView

NextEisenhower == Eisenhower \/ EisenhowerContinue

SpecEisenhower == InitEisenhower /\ [][NextEisenhower]_vars

(* ----------- the eisenhower helpers applied to every small title -------- *)
dropVars == <<board, viewState, error, insertionMethod, gestures, last, before,
              commits, pending>>

mountedVars == <<urgentDays, autoTagRef, effectDue, classified, batches, mounts,
                 edits>>

\* no document is open and no gesture is made
NoDrops ==
    /\ board = [d \in Docs |-> NewBoard(<<>>, <<>>)]
    /\ viewState = [d \in Docs |-> <<>>]
    /\ error = [d \in Docs |-> FALSE]
    /\ insertionMethod = "append"
    /\ gestures = 0
    /\ last = NoGesture
    /\ before = Snapshot
    /\ commits = <<>>
    /\ pending = None

\* values of the 'eisenhower-urgent-days' setting
UrgentDaysSettings == {1, 3}

\* a title is built from parts: a character, white space, a fragment of a
\* field, or a whole field
TitleParts ==
    {<<"x">>, <<" ">>, <<"<">>, <<">">>, <<"1">>, <<"<", "1", ">">>, <<"<", "4", ">">>}

RECURSIVE Concat(_)
Concat(parts) == IF parts = <<>> THEN <<>> ELSE Head(parts) \o Concat(Tail(parts))

PartTitles(maxParts) ==
    {Concat(parts) : parts \in UNION {[1..n -> TitleParts] : n \in 0..maxParts}}

InitMetadata ==
    /\ NoDrops
    /\ ViewUnmounted
    /\ \E titleRaw \in PartTitles(MaxParts) :
          applied = Unapplied(HydratedItem(I0, FALSE, titleRaw,
                                  HydratedMetadata(titleRaw, Absent, Absent, Absent,
                                                   Absent)))

\* setEisenhowerQuadrant(titleRaw, quadrant), and once more on what it returned
ApplySet(quadrant) ==
    LET result == SetEisenhowerQuadrant(applied.item.titleRaw, quadrant)
    IN /\ applied.fn = "none"
       /\ applied' = [applied EXCEPT !.fn = "setEisenhowerQuadrant",
                                     !.quadrant = quadrant,
                                     !.result = result,
                                     !.again = SetEisenhowerQuadrant(result, quadrant)]
       /\ UNCHANGED <<dropVars, mountedVars>>

\* the same with the other version of the helper
ApplySetLeading(quadrant) ==
    LET result == SetEisenhowerQuadrantLeading(applied.item.titleRaw, quadrant)
    IN /\ applied.fn = "none"
       /\ applied' = [applied EXCEPT !.fn = "setEisenhowerQuadrantLeading",
                                     !.quadrant = quadrant,
                                     !.result = result,
                                     !.again = SetEisenhowerQuadrantLeading(result, quadrant)]
       /\ UNCHANGED <<dropVars, mountedVars>>

SetQuadrant == \E quadrant \in Quadrants : ApplySet(quadrant)

SetQuadrantLeading == \E quadrant \in Quadrants : ApplySetLeading(quadrant)

\* the items after every update of the batch has been applied to its item
RECURSIVE UpdatedItems(_, _, _)
UpdatedItems(items, updates, k) ==
    IF k > Len(updates) THEN items
    ELSE UpdatedItems([i \in 1..Len(items) |->
                          IF items[i].id = updates[k].item.id
                          THEN [items[i] EXCEPT !.titleRaw = updates[k].newTitleRaw]
                          ELSE items[i]],
                      updates, k + 1)

\* addEisenhowerTagToItem(item, urgentDays) for the item with the inline
\* priority and due date given, then the batch on the list that holds the
\* item, then the batch once more on the updated list
ApplyTag(days, inlinePriority, inlineDue) ==
    LET item == [applied.item EXCEPT !.metadata.inlinePriority = inlinePriority,
                                     !.metadata.inlineDue = inlineDue]
        items == <<item>>
        updates == AddEisenhowerTagsToAllItems(items, days)
    IN /\ applied.fn = "none"
       /\ applied' = [applied EXCEPT
              !.fn = "addEisenhowerTagToItem",
              !.item = item,
              !.quadrant = ComputedQuadrant(item, days),
              !.result = AddEisenhowerTagToItem(item, days),
              !.again = UpdatedItems(items, updates, 1)[1].titleRaw,
              !.days = days,
              !.rerun = AddEisenhowerTagsToAllItems(UpdatedItems(items, updates, 1),
                                                    days)]
       /\ UNCHANGED <<dropVars, mountedVars>>

TagItem ==
    \E days \in UrgentDaysSettings : \E inlinePriority \in {Absent, PRI_HIGH} :
        \E inlineDue \in {Absent, "E"} : ApplyTag(days, inlinePriority, inlineDue)

NextMetadata == SetQuadrant \/ SetQuadrantLeading \/ TagItem

SpecMetadata == InitMetadata /\ [][NextMetadata]_vars

(* ------------------------- EisenhowerView ------------------------------ *)
\* allItems: the items of every lane, each with the place it was read from
LaneItems(lane, laneIndex) ==
    [k \in 1..Len(lane.children) |->
        [lane.children[k] EXCEPT !.metadata =
            [originalLaneIndex |-> laneIndex, originalItemIndex |-> k - 1] @@ @]]

RECURSIVE ItemsFrom(_, _)
ItemsFrom(brd, n) ==
    IF n > Len(brd.children) THEN <<>>
    ELSE LaneItems(brd.children[n], n - 1) \o ItemsFrom(brd, n + 1)

AllItems(brd) == ItemsFrom(brd, 1)

\* the version of the view that classifies by priority and date:
\* boardData.children.flatMap((lane) => lane.children)
RECURSIVE FlatItemsFrom(_, _)
FlatItemsFrom(brd, n) ==
    IF n > Len(brd.children) THEN <<>>
    ELSE brd.children[n].children \o FlatItemsFrom(brd, n + 1)

FlatItems(brd) == FlatItemsFrom(brd, 1)

\* the updateItem calls the effect makes for the updates, in order
TagCalls(updates) ==
    [k \in 1..Len(updates) |->
        [path |-> <<updates[k].item.metadata.originalLaneIndex,
                    updates[k].item.metadata.originalItemIndex>>,
         item |-> [updates[k].item EXCEPT !.titleRaw = updates[k].newTitleRaw]]]

RECURSIVE ApplyCalls(_, _, _)
ApplyCalls(brd, calls, k) ==
    IF k > Len(calls) THEN brd
    ELSE ApplyCalls(SetStateBoard(brd, UpdateItem(brd, calls[k].path, calls[k].item)),
                    calls, k + 1)

\* mutant: the effect forgets that it has run
AutoTagSkips_EmptyOnly(ref, allItems) == allItems = <<>>

\* if (autoTagRef.current || !allItems.length) return
AutoTagSkips(ref, allItems) == ref \/ allItems = <<>>

otherViewVars == <<viewState, error, insertionMethod, gestures, last, before, commits,
                   pending, applied>>

\* the auto-tag effect: it runs after a render in which allItems, urgentDays
\* or boardModifiers differ from the render before; every path it uses was
\* read from the board it updates
AutoTagEffect ==
    LET allItems == AllItems(board["A"])
        calls == TagCalls(AddEisenhowerTagsToAllItems(allItems, urgentDays))
    IN /\ mounts > 0
       /\ effectDue
       /\ IF AutoTagSkips(autoTagRef, allItems)
          THEN /\ effectDue' = FALSE
               /\ UNCHANGED <<board, autoTagRef, batches>>
          ELSE /\ board' = [board EXCEPT !["A"] = ApplyCalls(@, calls, 1)]
               /\ batches' = Append(batches, calls)
               /\ autoTagRef' = TRUE
               /\ effectDue' = (calls # <<>>)
       /\ UNCHANGED <<otherViewVars, urgentDays, classified, mounts, edits>>

\* useMemo classified of the view that reads the inline field
Render ==
    /\ mounts > 0
    /\ classified' = [scheme |-> "field", items |-> AllItems(board["A"]),
                      days |-> urgentDays,
                      quadrants |-> ClassifyEisenhower(AllItems(board["A"]), urgentDays)]
    /\ UNCHANGED <<board, otherViewVars, urgentDays, autoTagRef, effectDue, batches,
                   mounts, edits>>

\* useMemo classified of the view that reads priority and date
RenderByPriority ==
    /\ mounts > 0
    /\ classified' = [scheme |-> "priority", items |-> FlatItems(board["A"]),
                      days |-> 3,
                      quadrants |-> ClassifyEisenhowerByPriority(FlatItems(board["A"]))]
    /\ UNCHANGED <<board, otherViewVars, urgentDays, autoTagRef, effectDue, batches,
                   mounts, edits>>

\* the board changes while the view is shown: every setState gives allItems
\* a new identity
BoardChanged(newBoard) ==
    /\ mounts > 0
    /\ edits < MaxEdits
    /\ board' = [board EXCEPT !["A"] = newBoard]
    /\ edits' = edits + 1
    /\ effectDue' = TRUE
    /\ UNCHANGED <<otherViewVars, urgentDays, autoTagRef, classified, batches, mounts>>

ItemToggled ==
    \E path \in ItemPaths(board["A"]) :
        LET item == GetEntityFromPath(board["A"], path)
        IN BoardChanged(SetEntity(board["A"], path,
                                  [item EXCEPT !.checked = ~@,
                                               !.checkChar = IF @ = Done THEN NotDone
                                                             ELSE Done]))

ItemAdded ==
    BoardChanged(InsertEntity(board["A"], <<0, Len(board["A"].children[1].children)>>,
                   <<HydratedItem(FreshIds[1], FALSE, PlainTitle,
                                  HydratedMetadata(PlainTitle, Absent, Absent, Absent,
                                                   Absent))>>))

ItemRemoved ==
    \E path \in ItemPaths(board["A"]) :
        BoardChanged(RemoveEntity(board["A"], path, None))

SettingChanged ==
    /\ mounts > 0
    /\ urgentDays' \in UrgentDaysSettings \ {urgentDays}
    /\ effectDue' = TRUE
    /\ UNCHANGED <<board, otherViewVars, autoTagRef, classified, batches, mounts, edits>>

\* the context hands the view another boardModifiers object
ModifiersChanged ==
    /\ mounts > 0
    /\ ~effectDue
    /\ effectDue' = TRUE
    /\ UNCHANGED <<board, otherViewVars, urgentDays, autoTagRef, classified, batches,
                   mounts, edits>>

\* the view is closed and opened again: a new instance with a new ref
Remounted ==
    /\ mounts > 0
    /\ mounts < MaxMounts
    /\ mounts' = mounts + 1
    /\ autoTagRef' = FALSE
    /\ effectDue' = TRUE
    /\ batches' = <<>>
    /\ classified' = NoClassification
    /\ UNCHANGED <<board, otherViewVars, urgentDays, edits>>

\* the items a board shows: a title with the metadata hydrated from it, the
\* inline fields and the dependency ids
Shape(titleRaw, checked, inlinePriority, inlineDue, taskId, dependsOn) ==
    [titleRaw |-> titleRaw, checked |-> checked,
     metadata |-> HydratedMetadata(titleRaw, inlinePriority, inlineDue, taskId,
                                   dependsOn)]

ViewTitles ==
    {<<"x">>, <<"x", " ", "H">>, <<"x", " ", "E">>,
     <<"x", " ", "H", " ", "D", " ", "<", "4", ">">>, <<"x", " ", "<", "2", ">">>,
     <<"C", " ", "x">>, <<" ", "C", " ", "x">>}

ViewShapes ==
    {Shape(titleRaw, FALSE, Absent, Absent, Absent, Absent) : titleRaw \in ViewTitles}
    \cup {Shape(PlainTitle, checked, Absent, Absent, "t1", Absent) : checked \in BOOLEAN}
    \cup {Shape(PlainTitle, TRUE, Absent, Absent, Absent, Absent),
          Shape(PlainTitle, FALSE, Absent, Absent, Absent, "t1"),
          Shape(<<"x", " ", "<", "2", ">">>, FALSE, Absent, Absent, Absent, "t1"),
          Shape(PlainTitle, FALSE, PRI_HIGH, Absent, Absent, Absent),
          Shape(PlainTitle, FALSE, Absent, "D", Absent, Absent)}

\* the auto-tag effect reads neither the check mark nor the dependency ids
TagShapes ==
    {Shape(titleRaw, FALSE, Absent, Absent, Absent, Absent) :
        titleRaw \in {<<"x">>, <<"x", " ", "E">>,
                      <<"x", " ", "H", " ", "D", " ", "<", "4", ">">>,
                      <<"x", " ", "<", "4", ">">>}}

ShapeLists(shapes) == UNION {[1..n -> shapes] : n \in 0..MaxViewItems}

ViewItemIds == <<I0, I1, I2, I3>>

ItemsOfShapes(shapes, from, to) ==
    [k \in 1..(to + 1 - from) |->
        HydratedItem(ViewItemIds[from + k - 1], shapes[from + k - 1].checked,
                     shapes[from + k - 1].titleRaw, shapes[from + k - 1].metadata)]

\* the first lane holds the items up to split, the second lane the others
ViewBoard(shapes, split) ==
    NewBoard(<<NewLane(L0, FALSE, FALSE, ItemsOfShapes(shapes, 1, split)),
               NewLane(L1, FALSE, FALSE, ItemsOfShapes(shapes, split + 1, Len(shapes)))>>,
             <<FALSE, FALSE>>)

\* a view has been mounted on a board that shows one of the lists
MountedOn(lists) ==
    /\ \E shapes \in lists : \E split \in {Len(shapes), Min(1, Len(shapes))} :
          board = [d \in Docs |-> IF d = "A" THEN ViewBoard(shapes, split)
                                  ELSE NewBoard(<<>>, <<>>)]
    /\ viewState = [d \in Docs |-> board[d].listCollapse]
    /\ error = [d \in Docs |-> FALSE]
    /\ insertionMethod = "append"
    /\ gestures = 0
    /\ last = NoGesture
    /\ before = Snapshot
    /\ commits = <<>>
    /\ pending = None
    /\ applied = Unapplied(NewItem(NoId, FALSE, NotDone))
    /\ urgentDays \in UrgentDaysSettings
    /\ autoTagRef = FALSE
    /\ effectDue = TRUE
    /\ classified = NoClassification
    /\ batches = <<>>
    /\ mounts = 1
    /\ edits = 0

InitClassify == MountedOn(ShapeLists(ViewShapes))

NextClassify == Render \/ RenderByPriority

SpecClassify == InitClassify /\ [][NextClassify]_vars

InitAutoTag == MountedOn(ShapeLists(TagShapes))

NextAutoTag ==
    \/ AutoTagEffect
    \/ ItemToggled
    \/ ItemAdded
    \/ ItemRemoved
    \/ SettingChanged
    \/ ModifiersChanged
    \/ Remounted

SpecAutoTag == InitAutoTag /\ [][NextAutoTag]_vars

(* a board whose first lane holds the four items a, b, c, d, among four lanes *)
InitBoardSiblings ==
    NewBoard(<<NewLane("S0", FALSE, FALSE,
                       <<NewItem("a", FALSE, NotDone), NewItem("b", FALSE, NotDone),
                         NewItem("c", FALSE, NotDone), NewItem("d", FALSE, NotDone)>>),
               NewLane("S1", FALSE, FALSE, <<>>),
               NewLane("S2", FALSE, FALSE, <<>>),
               NewLane("S3", FALSE, FALSE, <<>>)>>,
             <<FALSE, TRUE, FALSE, FALSE>>)

InitSiblings ==
    /\ board = [d \in Docs |-> IF d = "A" THEN InitBoardSiblings ELSE InitBoardB(FALSE)]
    /\ viewState = [d \in Docs |-> board[d].listCollapse]
    /\ error = [d \in Docs |-> FALSE]
    /\ insertionMethod \in {"append", "prepend"}
    /\ gestures = 0
    /\ last = NoGesture
    /\ before = Snapshot
    /\ commits = <<>>
    /\ pending = None
    /\ NoView

SpecSiblings == InitSiblings /\ [][Next]_vars

(* ------------------------- derived notions ----------------------------- *)
Count(b) == Cardinality(EntityPaths(b))          \* lanes and items of a board
Ids(b) == {GetEntityFromPath(b, p).id : p \in EntityPaths(b)}
LaneIds(b) == [k \in 1..Len(b.children) |-> b.children[k].id]
ItemIdsOf(lane) == [k \in 1..Len(lane.children) |-> lane.children[k].id]
Occurrences(lane, id) ==
    Cardinality({k \in 1..Len(lane.children) : lane.children[k].id = id})
Copies(b, id) == Cardinality({p \in EntityPaths(b) : GetEntityFromPath(b, p).id = id})

\* the gesture handled last and the entities it addressed, as it found them
Moved == last.kind \in {"same", "cross"} /\ last.entity # NoId
Original == GetEntityFromPath(before.board[last.src], last.dragPath)
SourceLaneBefore == GetEntityFromPath(before.board[last.src], Front(last.dragPath))
SourceLaneAfter == GetEntityFromPath(board[last.src], Front(last.dragPath))
DestinationLaneBefore == GetEntityFromPath(before.board[last.dst], Front(last.dropPath))
DestinationLaneAfter == GetEntityFromPath(board[last.dst], Front(last.dropPath))
ItemMoveDone ==
    Moved /\ last.dragType = ItemType /\ last.outcome # "throw"
CrossesFlag ==
    SourceLaneBefore.shouldMarkItemsComplete # DestinationLaneBefore.shouldMarkItemsComplete
ReplacementLeft == ItemMoveDone /\ last.outcome = "split" /\ CrossesFlag

\* the dragged item as the destination lane's flag requires it
Adjusted ==
    IF CrossesFlag
    THEN [Original EXCEPT
            !.checked = DestinationLaneBefore.shouldMarkItemsComplete,
            !.checkChar = IF DestinationLaneBefore.shouldMarkItemsComplete
                          THEN Done ELSE NotDone]
    ELSE Original

TotalBefore == Count(before.board["A"]) + Count(before.board["B"])
TotalAfter == Count(board["A"]) + Count(board["B"])

(* ------------------------------ claims --------------------------------- *)

\* C1 (as claimed): in a cross-document move whose destination insertion does
\* not take effect (the destination board is left as it was), the source
\* removal is not committed: the source board still holds the dragged entity.
C1_SourceKeptWhenDestinationUnchanged ==
    (/\ last.kind = "cross"
     /\ last.entity # NoId
     /\ board[last.dst] = before.board[last.dst])
    => Copies(board[last.src], last.entity) = 1

\* C2 (as claimed): after a completed cross-document move of an item, the
\* source lane no longer holds it, the destination lane holds exactly one
\* copy, the transformed item, and the two boards together have as many
\* entities as before.
C2_CrossMoveConservesCount ==
    (ItemMoveDone /\ last.kind = "cross")
    => /\ Occurrences(SourceLaneAfter, last.entity) = 0
       /\ Occurrences(DestinationLaneAfter, last.entity) = 1
       /\ \E k \in 1..Len(DestinationLaneAfter.children) :
             DestinationLaneAfter.children[k] = Adjusted
       /\ TotalAfter = TotalBefore

\* C2 (amended): as above, but the two boards together have as many entities
\* as before only when the hook leaves no replacement; when it leaves one,
\* the replacement takes the item's place in the source lane and the total
\* grows by exactly one.
C2_CrossMoveCountsReplacement ==
    (ItemMoveDone /\ last.kind = "cross")
    => /\ Occurrences(SourceLaneAfter, last.entity) = 0
       /\ Occurrences(DestinationLaneAfter, last.entity) = 1
       /\ \E k \in 1..Len(DestinationLaneAfter.children) :
             DestinationLaneAfter.children[k] = Adjusted
       /\ Copies(board[last.src], last.entity) = 0
       /\ Copies(board[last.dst], last.entity) = 1
       /\ TotalAfter = TotalBefore + (IF ReplacementLeft THEN 1 ELSE 0)
       /\ ReplacementLeft =>
             /\ Len(SourceLaneAfter.children) = Len(SourceLaneBefore.children)
             /\ SourceLaneAfter.children[Last(last.dragPath) + 1].id
                   \notin Ids(before.board["A"]) \cup Ids(before.board["B"])

C2_Witness ==
    /\ ItemMoveDone /\ last.kind = "cross"
    /\ last.src = "A" /\ last.dragPath = <<0, 0>> /\ Front(last.dropPath) = <<0>>
    /\ Occurrences(board["B"].children[1], I0) = 1
    /\ Copies(board["A"], I0) = 0

\* C3 (as claimed): every same-document move keeps the number of entities of
\* the board and the set of entity ids.
C3_SameMoveConservesCount ==
    (Moved /\ last.kind = "same")
    => /\ Count(board[last.src]) = Count(before.board[last.src])
       /\ Ids(board[last.src]) = Ids(before.board[last.src])

\* C3 (amended): every same-document move keeps every entity of the board
\* exactly once; the number of entities and the set of ids are unchanged
\* unless the hook leaves a replacement at the source, which adds exactly one
\* entity with a new id.
C3_SameMoveCountsReplacement ==
    (Moved /\ last.kind = "same")
    => /\ \A id \in Ids(before.board[last.src]) : Copies(board[last.src], id) = 1
       /\ Count(board[last.src]) =
             Count(before.board[last.src]) + (IF ReplacementLeft THEN 1 ELSE 0)
       /\ Cardinality(Ids(board[last.src])) = Count(board[last.src])
       /\ ~ReplacementLeft => Ids(board[last.src]) = Ids(before.board[last.src])

C3_Witness ==
    /\ Moved /\ last.kind = "same" /\ last.dragType = ItemType
    /\ last.outcome = "plain"
    /\ Front(last.dragPath) # Front(last.dropPath)
    /\ board[last.src] # before.board[last.src]
    /\ Count(board[last.src]) = 5

\* C4: after a lane move (same-document, or cross-document on the source and
\* on the destination document) the collapse array of each involved document,
\* in the view and in the board settings, is as long as the board's lane
\* list, provided it was before the gesture.
LengthsAgree(b, v) ==
    Len(v) = Len(b.children) /\ Len(b.listCollapse) = Len(b.children)

C4_CollapseLengthFollowsLanes ==
    (/\ Moved /\ last.dragType = LaneType
     /\ \A d \in {last.src, last.dst} : LengthsAgree(before.board[d], before.viewState[d]))
    => \A d \in {last.src, last.dst} : LengthsAgree(board[d], viewState[d])

C4_Witness ==
    /\ Moved /\ last.dragType = LaneType /\ last.kind = "cross"
    /\ Len(board[last.dst].children) = Len(before.board[last.dst].children) + 1
    /\ Len(board[last.src].children) + 1 = Len(before.board[last.src].children)
    /\ Len(viewState[last.dst]) = Len(before.viewState[last.dst]) + 1

\* C5: a same-document lane move leaves every lane with the collapse flag it
\* had: the flag at each position after the move is the flag the lane now at
\* that position had before; moving L1 before L0 in {L0, L1} with collapse
\* [false, true] gives {L1, L0} with collapse [true, false].
FlagBefore(d, laneId) ==
    LET k == CHOOSE j \in 1..Len(before.board[d].children) :
                 before.board[d].children[j].id = laneId
    IN before.viewState[d][k]

C5_LaneKeepsCollapseFlag ==
    (Moved /\ last.kind = "same" /\ last.dragType = LaneType)
    => LET d == last.src
       IN /\ Len(viewState[d]) = Len(board[d].children)
          /\ board[d].listCollapse = viewState[d]
          /\ \A k \in 1..Len(board[d].children) :
                /\ board[d].children[k].id \in Ids(before.board[d])
                /\ viewState[d][k] = FlagBefore(d, board[d].children[k].id)
          /\ (/\ LaneIds(before.board[d]) = <<L0, L1>>
              /\ before.viewState[d] = <<FALSE, TRUE>>
              /\ last.dragPath = <<1>> /\ last.dropPath = <<0>>)
             => /\ LaneIds(board[d]) = <<L1, L0>>
                /\ viewState[d] = <<TRUE, FALSE>>
                /\ board[d].children[1] = before.board[d].children[2]
                /\ board[d].children[2] = before.board[d].children[1]

C5_Witness ==
    /\ Moved /\ last.kind = "same" /\ last.dragType = LaneType
    /\ last.dragPath = <<1>> /\ last.dropPath = <<0>>
    /\ LaneIds(before.board["A"]) = <<L0, L1>>
    /\ LaneIds(board["A"]) = <<L1, L0>>
    /\ viewState["A"] = <<TRUE, FALSE>>

\* C6 (as claimed): when a gesture inserts an item into a lane that did not
\* hold it and whose sorted marker is set (a same-document move from another
\* lane, a cross-document move, an external insertion), the resulting lane
\* has no sorted marker.
ForeignArrival ==
    /\ last.kind \in {"same", "cross", "html"}
    /\ last.dragType = ItemType
    /\ last.dropPath # <<>>
    /\ DestinationLaneBefore.type = LaneType
    /\ \E k \in 1..Len(DestinationLaneAfter.children) :
          LET id == DestinationLaneAfter.children[k].id
          IN /\ Occurrences(DestinationLaneBefore, id) = 0
             /\ last.kind = "html" \/ id = last.entity

C6_ForeignItemClearsSorted ==
    (ForeignArrival /\ DestinationLaneBefore.sorted) => ~DestinationLaneAfter.sorted

\* C7: an item move adjusts the completion marker once: the one copy of the
\* item in the destination document is the dragged item with checked set when
\* it went from a lane that does not mark complete into one that does, and
\* cleared the other way round; the item inserted and the replacement left at
\* the source are the hook's result for the item as it was.
HookBefore ==
    MaybeCompleteForMove(before.board[last.src], last.dragPath,
                         before.board[last.dst], last.dropPath, Original,
                         last.outcome,
                         FreshIds[(gestures - 1) * (MaxContent + 1) + 1])

C7_CompletionAppliedOnce ==
    ItemMoveDone
    => /\ Copies(board[last.dst], last.entity) = 1
       /\ Occurrences(DestinationLaneAfter, last.entity) = 1
       /\ \A k \in 1..Len(DestinationLaneAfter.children) :
             LET item == DestinationLaneAfter.children[k]
             IN item.id = last.entity
                => /\ item = Adjusted
                   /\ item = HookBefore.next
                   /\ (/\ ~SourceLaneBefore.shouldMarkItemsComplete
                       /\ DestinationLaneBefore.shouldMarkItemsComplete)
                      => item.checked
                   /\ (/\ SourceLaneBefore.shouldMarkItemsComplete
                       /\ ~DestinationLaneBefore.shouldMarkItemsComplete)
                      => ~item.checked
       /\ HookBefore.replacement # None
             => SourceLaneAfter.children[Last(last.dragPath) + 1] = HookBefore.replacement

C7_Witness ==
    /\ ItemMoveDone /\ last.kind = "same"
    /\ ~Original.checked
    /\ ~SourceLaneBefore.shouldMarkItemsComplete
    /\ DestinationLaneBefore.shouldMarkItemsComplete
    /\ \E k \in 1..Len(DestinationLaneAfter.children) :
          /\ DestinationLaneAfter.children[k].id = last.entity
          /\ DestinationLaneAfter.children[k].checked

\* C8 (as claimed): an item dropped on a lane container under the append
\* insertion policy lands at the end of the destination lane.
C8_DropOnLaneAppends ==
    (ItemMoveDone /\ last.inDropArea /\ insertionMethod = "append")
    => /\ Len(DestinationLaneAfter.children) > 0
       /\ DestinationLaneAfter.children[Len(DestinationLaneAfter.children)].id
             = last.entity

\* C9: a drop whose drag path resolves to no entity of the source board
\* changes no board, no collapse array and no error slot.
C9_UnresolvedDragIsNoOp ==
    (last.kind \in {"same", "cross"} /\ last.entity = NoId)
    => /\ board = before.board
       /\ viewState = before.viewState
       /\ error = before.error

C9_Witness ==
    /\ last.kind = "same" /\ last.entity = NoId
    /\ last.dragPath = <<StaleIndex, 0>>
    /\ Len(before.board[last.src].children) = 2
    /\ board = before.board
    /\ ~error[last.src]

\* C10 (as claimed): when the completion hook throws during an item move,
\* every involved board is left as it was and the error is recorded on the
\* document's error slot.
C10_HookFailureAbortsMove ==
    (Moved /\ last.dragType = ItemType /\ last.outcome = "throw")
    => /\ board = before.board
       /\ viewState = before.viewState
       /\ error[last.src] \/ error[last.dst]

\* C11: a same-document move calls setState once, on the one document, and the
\* committed board is the updater's result for the board that call found, the
\* drag path and the drop path both resolved in it; a cross-document move
\* calls setState twice, once on the destination and once on the source
\* document.
CallsOn(d) == Cardinality({k \in 1..Len(commits) : commits[k].doc = d})

HtmlNewIds(n) == [k \in 1..n |-> FreshIds[(gestures - 1) * (MaxContent + 1) + k]]

C12_ExternalInsertOnly ==
    last.kind = "html"
    => /\ \A d \in Docs \ {last.dst} : board[d] = before.board[d]
       /\ viewState = before.viewState
       /\ Len(commits) <= 1
       /\ \/ board[last.dst] = before.board[last.dst]
          \/ LET old == DestinationLaneBefore.children
                 new == DestinationLaneAfter.children
                 i == Last(last.dropPath)
                 n == Len(new) - Len(old)
             IN /\ DestinationLaneBefore.type = LaneType
                /\ n \in 1..MaxContent
                /\ i <= Len(old)
                /\ SubSeq(new, 1, i) = SubSeq(old, 1, i)
                /\ SubSeq(new, i + n + 1, Len(new)) = SubSeq(old, i + 1, Len(old))
                /\ ItemIdsOf([children |-> SubSeq(new, i + 1, i + n)]) = HtmlNewIds(n)
                /\ board[last.dst] =
                      SetEntity(before.board[last.dst], Front(last.dropPath),
                                [DestinationLaneBefore EXCEPT !.children = new])
       /\ (last.outcome = "plain" /\ Len(last.dropPath) = 2)
          => board[last.dst] # before.board[last.dst]

C12_Witness ==
    /\ last.kind = "html" /\ last.outcome = "plain"
    /\ last.dst = "A" /\ last.dropPath = <<0, 1>>
    /\ ItemIdsOf(board["A"].children[1]) = <<I0, "N1", "N2", I1>>
    /\ board["B"] = before.board["B"]

\* C13: every item an external-source insertion puts into a lane that marks
\* items complete is checked and carries the done status character; every
\* item it puts into a lane that does not is unchecked and carries ' '.
C13_ExternalItemsAdjusted ==
    (last.kind = "html" /\ DestinationLaneBefore.type = LaneType)
    => \A k \in 1..Len(DestinationLaneAfter.children) :
          LET item == DestinationLaneAfter.children[k]
          IN Occurrences(DestinationLaneBefore, item.id) = 0
             => IF DestinationLaneBefore.shouldMarkItemsComplete
                THEN item.checked /\ item.checkChar = Done
                ELSE ~item.checked /\ item.checkChar = NotDone

C13_Witness ==
    /\ last.kind = "html" /\ last.dst = "A" /\ last.dropPath = <<1, 0>>
    /\ DestinationLaneBefore.shouldMarkItemsComplete
    /\ Len(board["A"].children[2].children) = 3
    /\ board["A"].children[2].children[1] = NewItem("N1", TRUE, Done)
    /\ board["A"].children[2].children[2] = NewItem("N2", TRUE, Done)

\* C14: a same-document move puts the entity at the target index less one
\* when source and target are siblings under one parent and the source index
\* is less than the target index, and at the target index itself in every
\* other case; the collapse flags of a moved lane follow by the same rule.
\* Moving index 1 to path index 3 in [a, b, c, d] gives [a, c, b, d].
ExpectedIndex ==
    IF Front(last.dragPath) = Front(last.dropPath)
       /\ Last(last.dragPath) < Last(last.dropPath)
    THEN Last(last.dropPath) - 1
    ELSE Last(last.dropPath)

C14_SiblingIndexCorrection ==
    (Moved /\ last.kind = "same" /\ last.outcome # "throw")
    => /\ ExpectedIndex < Len(DestinationLaneAfter.children)
       /\ DestinationLaneAfter.children[ExpectedIndex + 1].id = last.entity
       /\ last.dragType = LaneType
          => /\ Len(viewState[last.src]) = Len(board[last.src].children)
             /\ \A k \in 1..Len(board[last.src].children) :
                   viewState[last.src][k] =
                       FlagBefore(last.src, board[last.src].children[k].id)
             /\ board[last.src].listCollapse = viewState[last.src]
       /\ (/\ ItemIdsOf(DestinationLaneBefore) = <<"a", "b", "c", "d">>
           /\ last.dragPath = <<0, 1>> /\ last.dropPath = <<0, 3>>)
          => ItemIdsOf(DestinationLaneAfter) = <<"a", "c", "b", "d">>

C14_Witness ==
    /\ Moved /\ last.kind = "same" /\ last.outcome = "plain"
    /\ last.dragPath = <<0, 1>> /\ last.dropPath = <<0, 3>>
    /\ ItemIdsOf(before.board["A"].children[1]) = <<"a", "b", "c", "d">>
    /\ ItemIdsOf(board["A"].children[1]) = <<"a", "c", "b", "d">>

\* C15: in a same-document lane move, whenever the document's receivers are
\* told of a commit, the board slot and the collapse-array accessor are both
\* as the gesture found them or both as it leaves them, and the flag at each
\* position is the flag of the lane the board slot has at that position: the
\* lane order is never seen changed with the collapse array unchanged, nor
\* the other way round.
FlagsFollowLanes(d, b, v) ==
    /\ Len(v) = Len(b.children)
    /\ b.listCollapse = v
    /\ \A j \in 1..Len(b.children) :
          /\ b.children[j].id \in Ids(before.board[d])
          /\ v[j] = FlagBefore(d, b.children[j].id)

C15_LaneOrderAndCollapseTogether ==
    (last.kind = "same" /\ last.dragType = LaneType)
    => /\ FlagsFollowLanes(last.src, board[last.src], viewState[last.src])
       /\ \A k \in 1..Len(commits) :
             LET b == commits[k].board[last.src]
                 v == commits[k].viewState[last.src]
             IN /\ FlagsFollowLanes(last.src, b, v)
                /\ \/ b = before.board[last.src] /\ v = before.viewState[last.src]
                   \/ b = board[last.src] /\ v = viewState[last.src]

C15_Witness ==
    /\ last.kind = "same" /\ last.dragType = LaneType /\ last.entity = L1
    /\ Len(commits) = 1
    /\ LaneIds(commits[1].board["A"]) = <<L1, L0>>
    /\ commits[1].viewState["A"] = <<TRUE, FALSE>>
    /\ before.viewState["A"] = <<FALSE, TRUE>>

\* C16: a gesture whose dragged entity is an item (a move within a lane,
\* across lanes, across documents, or an external insertion) leaves the
\* collapse array of every document as it was, in the view and in the board
\* settings; a collapse array differs after a gesture only when the dragged
\* entity is a lane.
CollapseUnchanged ==
    /\ viewState = before.viewState
    /\ \A d \in Docs : board[d].listCollapse = before.board[d].listCollapse

C16_ItemMovesKeepCollapse ==
    /\ (last.kind \in {"same", "cross", "html"} /\ last.dragType = ItemType)
       => CollapseUnchanged
    /\ ~CollapseUnchanged => (Moved /\ Original.type = LaneType)

C16_Witness ==
    /\ ItemMoveDone /\ last.kind = "cross" /\ last.entity = I2
    /\ Copies(board[last.dst], I2) = 1
    /\ before.viewState[last.src] = <<FALSE, TRUE>>
    /\ CollapseUnchanged

\* C17 (as claimed): a cross-document move commits twice within the one
\* gesture, the destination insertion before the source removal; at each of
\* the two commits the dragged entity is in at least one of the two
\* documents, and when the handler returns it is in exactly one.
CopiesInBoth(boards) ==
    Copies(boards[last.src], last.entity) + Copies(boards[last.dst], last.entity)

C17_EntityNeverAbsent ==
    (Moved /\ last.kind = "cross")
    => /\ Len(commits) = 2
       /\ commits[1].doc = last.dst
       /\ commits[2].doc = last.src
       /\ commits[1].board[last.src] = before.board[last.src]
       /\ commits[2].board = board
       /\ \A k \in 1..Len(commits) : CopiesInBoth(commits[k].board) >= 1
       /\ CopiesInBoth(board) = 1

\* C18 (as claimed): a drop whose drag scope is not htmldnd, both entities
\* present, is classified (Eisenhower target, same document, cross document)
\* without an error being raised, and a same-document drop of an entity the
\* drag path resolves ends in a commit.
C18_DropIsClassified ==
    last.kind \notin {"none", "html"}
    => /\ last.kind \in {"eisenhower", "same", "cross"}
       /\ (last.src = last.dst /\ last.entity # NoId /\ last.kind # "eisenhower")
          => Len(commits) = 1

\* C19: the drop of an item on an Eisenhower target changes no collapse
\* array and no board but the dragged item's; in that board every lane keeps
\* its place and its items in their order, and no entity differs from what
\* it was except, at most, the dragged item at its drag path, in its title.
C19_EisenhowerDropKeepsPlaces ==
    last.kind = "eisenhower"
    => /\ viewState = before.viewState
       /\ \A d \in Docs \ {last.src} : board[d] = before.board[d]
       /\ LET old == before.board[last.src]
              new == board[last.src]
          IN /\ new.listCollapse = old.listCollapse
             /\ LaneIds(new) = LaneIds(old)
             /\ \A k \in 1..Len(old.children) :
                   ItemIdsOf(new.children[k]) = ItemIdsOf(old.children[k])
             /\ \A p \in EntityPaths(old) :
                   p # last.dragPath /\ Len(p) = 2
                   => GetEntityFromPath(new, p) = GetEntityFromPath(old, p)
             /\ \/ new = old
                \/ /\ pending = None
                   /\ last.entity # NoId
                   /\ new = SetEntity(old, last.dragPath,
                                      [Original EXCEPT !.titleRaw =
                                          GetEntityFromPath(new, last.dragPath).titleRaw])

C19_Witness ==
    /\ last.kind = "eisenhower" /\ pending = None
    /\ last.src = "A" /\ last.dragPath = <<0, 1>> /\ last.outcome = "2"
    /\ Len(commits) = 1
    /\ ItemIdsOf(board["A"].children[1]) = <<I0, I1>>
    /\ board["A"].children[1].children[2].titleRaw = <<"x", " ", "H", " ", "<", "2", ">">>
    /\ board["A"] # before.board["A"]

\* C20 (as claimed): handleEisenhowerDrop calls updateItem not at all when the
\* first eisenhower field of the item's title names the target quadrant, and
\* otherwise exactly once, at the source path, with a title that holds
\* exactly one eisenhower field, which names the target quadrant.
C20_OneFieldForTarget ==
    (last.kind = "eisenhower" /\ last.entity # NoId /\ pending = None)
    => IF GetEisenhowerQuadrant(Original.titleRaw) = last.outcome
       THEN commits = <<>> /\ board = before.board
       ELSE /\ Len(commits) = 1
            /\ commits[1].doc = last.src
            /\ LET item == GetEntityFromPath(board[last.src], last.dragPath)
               IN /\ item.id = last.entity
                  /\ Cardinality(FieldPositions(item.titleRaw)) = 1
                  /\ GetEisenhowerQuadrant(item.titleRaw) = last.outcome

\* the title with every eisenhower field taken for white space
RECURSIVE FieldsAsSpaces(_, _)
FieldsAsSpaces(s, i) ==
    IF i > Len(s) THEN <<>>
    ELSE IF FieldAt(s, i) THEN <<" ">> \o FieldsAsSpaces(s, i + 3)
    ELSE <<s[i]>> \o FieldsAsSpaces(s, i + 1)

\* the words of a text: its maximal runs without white space, in order
RECURSIVE WordsFrom(_, _)
WordsFrom(s, i) ==
    LET j == i + SpacesFrom(s, i)
        ends == {k \in j..Len(s) : s[k] = " "}
        stop == IF ends = {} THEN Len(s) + 1
                ELSE CHOOSE k \in ends : \A m \in ends : k <= m
    IN IF j > Len(s) THEN <<>>
       ELSE <<SubSeq(s, j, stop - 1)>> \o WordsFrom(s, stop)

\* the words of a title other than its eisenhower fields
OtherWords(titleRaw) == WordsFrom(FieldsAsSpaces(titleRaw, 1), 1)

SetApplied == applied.fn \in {"setEisenhowerQuadrant", "setEisenhowerQuadrantLeading"}

\* C21 (as claimed): for every title and quadrant, the title returned by
\* setEisenhowerQuadrant reads back as that quadrant, holds exactly one
\* eisenhower field, is left as it is by setting the same quadrant again, and
\* keeps the words of the title other than its fields, in order and apart.
C21_SetThenGet ==
    SetApplied
    => /\ GetEisenhowerQuadrant(applied.result) = applied.quadrant
       /\ Cardinality(FieldPositions(applied.result)) = 1
       /\ applied.again = applied.result
       /\ OtherWords(applied.result) = OtherWords(applied.item.titleRaw)

\* how often the item is found in the quadrants of the classification
PlacesOf(id) ==
    Cardinality({place \in Quadrants \X (1..MaxViewItems) :
                    /\ place[2] <= Len(classified.quadrants[place[1]])
                    /\ classified.quadrants[place[1]][place[2]].id = id})

PositionOf(id) == CHOOSE k \in 1..Len(classified.items) : classified.items[k].id = id

\* every quadrant lists its items in the order of the input
InInputOrder ==
    \A q \in Quadrants : \A i, j \in 1..Len(classified.quadrants[q]) :
        i < j => PositionOf(classified.quadrants[q][i].id)
                     < PositionOf(classified.quadrants[q][j].id)

\* the item depends on an item of the input that is not checked
BlockedInInput(item) ==
    /\ item.metadata.dependsOn # Absent
    /\ \E k \in 1..Len(classified.items) :
          /\ classified.items[k].metadata.taskId = item.metadata.dependsOn
          /\ ~classified.items[k].checked

\* C22 (as claimed): classifyEisenhower places every item of the input that
\* is unchecked, whose titleRaw does not start with - [-] and that is not
\* blocked by an unfinished dependency in exactly one quadrant, every other
\* item in none, and keeps the order of the input inside each quadrant.
C22_FiltersAndOrder ==
    classified.scheme # "none"
    => /\ \A k \in 1..Len(classified.items) :
             LET item == classified.items[k]
                 cancelled == item.titleRaw # <<>> /\ item.titleRaw[1] = "C"
             IN PlacesOf(item.id)
                    = IF ~item.checked /\ ~cancelled /\ ~BlockedInInput(item)
                      THEN 1 ELSE 0
       /\ InInputOrder

\* C22 (amended): the same, where the classifier that reads the inline field
\* looks for - [-] at the start of titleRaw after trimming its white space.
C22_FiltersAndOrderTrimmed ==
    classified.scheme # "none"
    => /\ \A k \in 1..Len(classified.items) :
             LET item == classified.items[k]
                 text == IF classified.scheme = "field"
                         THEN TrimStart(item.titleRaw) ELSE item.titleRaw
                 cancelled == text # <<>> /\ text[1] = "C"
             IN PlacesOf(item.id)
                    = IF ~item.checked /\ ~cancelled /\ ~BlockedInInput(item)
                      THEN 1 ELSE 0
       /\ InInputOrder

\* a cancelled title behind white space is left out while the item after it
\* is placed
C22_Witness ==
    /\ classified.scheme = "field"
    /\ Len(classified.items) = 2
    /\ classified.items[1].titleRaw = <<" ", "C", " ", "x">>
    /\ ~classified.items[1].checked
    /\ PlacesOf(I0) = 0
    /\ Len(classified.quadrants["4"]) = 1
    /\ classified.quadrants["4"][1].id = I1

\* the quadrants that list the item
QuadrantsOf(id) ==
    {q \in Quadrants : \E k \in 1..Len(classified.quadrants[q]) :
                          classified.quadrants[q][k].id = id}

\* C23: an item that classifyEisenhower places is in the quadrant its
\* [eisenhower::qx] field names whenever it has one, whatever its priority
\* and due date say; an item without field is in q1 when important and
\* urgent, q2 when important only, q3 when urgent only, q4 otherwise.
C23_FieldBeforeDerivation ==
    classified.scheme = "field"
    => \A k \in 1..Len(classified.items) :
          LET item == classified.items[k]
              field == GetEisenhowerQuadrant(item.titleRaw)
              isImportant == CheckImportance(item)
              isUrgent == CheckUrgency(item, classified.days)
          IN QuadrantsOf(item.id) # {}
             => IF field # NoQuadrant THEN QuadrantsOf(item.id) = {field}
                ELSE /\ isImportant /\ isUrgent => QuadrantsOf(item.id) = {"1"}
                     /\ isImportant /\ ~isUrgent => QuadrantsOf(item.id) = {"2"}
                     /\ ~isImportant /\ isUrgent => QuadrantsOf(item.id) = {"3"}
                     /\ ~isImportant /\ ~isUrgent => QuadrantsOf(item.id) = {"4"}

\* an important and urgent item with the field q4 is listed in q4, next to
\* an important item without field and without date that is listed in q2
C23_Witness ==
    /\ classified.scheme = "field"
    /\ Len(classified.items) = 2
    /\ classified.items[1].titleRaw = <<"x", " ", "H", " ", "D", " ", "<", "4", ">">>
    /\ CheckImportance(classified.items[1])
    /\ CheckUrgency(classified.items[1], classified.days)
    /\ QuadrantsOf(classified.items[1].id) = {"4"}
    /\ classified.items[2].titleRaw = <<"x", " ", "H">>
    /\ QuadrantsOf(classified.items[2].id) = {"2"}

TagApplied == applied.fn = "addEisenhowerTagToItem"

\* C24 (as claimed): addEisenhowerTagToItem returns null exactly when the
\* field of the item is the quadrant computed from checkImportance and
\* checkUrgency;
\* otherwise the title it returns has the computed quadrant as its field;
\* and after the updates of addEisenhowerTagsToAllItems have been applied a
\* second run returns no update.
C24_TagOnceIsEnough ==
    TagApplied
    => /\ (applied.result = NoTitle)
             <=> (GetEisenhowerQuadrant(applied.item.titleRaw) = applied.quadrant)
       /\ applied.result # NoTitle
             => GetEisenhowerQuadrant(applied.result) = applied.quadrant
       /\ applied.rerun = <<>>

\* C25: within one mounted instance of the view the auto-tag effect runs its
\* batch at most once: while the item list is empty it neither runs a batch
\* nor marks itself done, the one batch it runs marks it done, and once it is
\* done no change of items, urgentDays or boardModifiers makes it run again.
C25_TagsOncePerInstance ==
    [][mounts' = mounts
       => /\ AllItems(board["A"]) = <<>>
                => batches' = batches /\ autoTagRef' = autoTagRef
          /\ autoTagRef => batches' = batches /\ autoTagRef'
          /\ batches' # batches
                => /\ batches = <<>>
                   /\ Len(batches') = 1
                   /\ ~autoTagRef /\ autoTagRef']_vars

\* the batch has run and tagged an item; an item added afterwards made the
\* effect run again, and it has left the new item without field
C25_Witness ==
    /\ mounts = 1
    /\ autoTagRef
    /\ ~effectDue
    /\ Len(batches) = 1
    /\ batches[1] # <<>>
    /\ edits = 1
    /\ \E k \in 1..Len(AllItems(board["A"])) :
          GetEisenhowerQuadrant(AllItems(board["A"])[k].titleRaw) = NoQuadrant

\* handleEisenhowerDrop has handed the item with a new title to updateItem
DropUpdated ==
    /\ last.kind = "eisenhower"
    /\ pending = None
    /\ commits # <<>>
    /\ ~commits[1].threw

DroppedItem == GetEntityFromPath(board[last.src], last.dragPath)

\* C26 (as claimed): after handleEisenhowerDrop has moved an item to a
\* quadrant, the quadrant computed from checkImportance and checkUrgency of
\* the updated item is that quadrant and addEisenhowerTagToItem returns null
\* for it, whatever priority and due date the item had and whichever the
\* target quadrant is.
C26_DropAgreesWithAutoTag ==
    DropUpdated
    => \A days \in UrgentDaysSettings :
          /\ ComputedQuadrant(DroppedItem, days) = last.outcome
          /\ AddEisenhowerTagToItem(DroppedItem, days) = NoTitle

====
